---- MODULE Spec2Model ----
(***************************************************************************)
(* A model of udp-obfuscat: the transform pipeline (filters/xor.rs,        *)
(* filters/head.rs), the conntrack table and the forwarding engine         *)
(* (proxy.rs: run, get_or_insert_conntrack_entry, reply_loop).             *)
(*                                                                         *)
(* Time is discrete: Tick advances every clock by TickSeconds, and only    *)
(* waiting takes time (a step that is ready to run runs before the next    *)
(* tick).                                                                  *)
(***************************************************************************)
EXTENDS Integers, Sequences, FiniteSets, TLC

----------------------------------------------------------------------------
(* Bounds of the model *)

\* callers of UdpProxy::run on one proxy when calls are made concurrently
NumIngress == 2
\* distinct peer addresses
NumPeers == 2
\* conntrack entries ever created
MaxEntries == 2
\* longest datagram (and size of the datagram buffers)
MaxLen == 1
\* largest configured head_len
MaxHead == 1
\* seconds per clock tick
TickSeconds == 60
\* longest buffer handed to a filter on its own
MaxBufLen == 3
\* longest list of addresses handed to resolve_and_filter_ips
MaxAddrs == 2
\* listening sockets of one proxy
NumListeners == 2
\* calls of notify_one counted per entry between two wakes of its reply task
MaxPending == 2
\* tasks calling the methods of one ConntrackValue
NumCallers == 2
\* calls of inc_packets_in and inc_packets_out made on one ConntrackValue
MaxCalls == 3

\* proxy.rs:22
CONNTRACK_TIMEOUT == 120

Tasks == 1..NumIngress
Peers == 1..NumPeers
Entries == 1..MaxEntries

\* the byte the datagrams of the engine model are made of
PayloadByte == 7
Payloads == UNION {[1..n -> {PayloadByte}] : n \in 0..MaxLen}

\* the outcome of a transform that panicked
PANIC == <<-1>>
\* config.head_len = None
NoHead == -1

Min(a, b) == IF a < b THEN a ELSE b

----------------------------------------------------------------------------
(* The transform pipeline *)

RECURSIVE BitXor(_, _, _)
\* u8 ^ u8, bit by bit over w bits
BitXor(a, b, w) ==
    IF w = 0 THEN 0
    ELSE (((a % 2) + (b % 2)) % 2) + 2 * BitXor(a \div 2, b \div 2, w - 1)

\* u8 wrapping_add in place of ^
ByteAddWrapping(a, b) == (a + b) % 256

ByteXor(a, b) == BitXor(a, b, 8)

RECURSIVE XorFromNoCycle(_, _, _)
\* a zip with key.iter() that is not cycled: it ends with the key
XorFromNoCycle(key, data, i) ==
    IF i > Len(data) \/ i > Len(key) THEN data
    ELSE XorFromNoCycle(key, [data EXCEPT ![i] = ByteXor(data[i], key[i])], i + 1)

RECURSIVE XorFrom(_, _, _)
\* data.iter_mut().zip(key.iter().cycle()) from position i on: the cycle of
\* an empty key yields nothing, so the zip ends at once
XorFrom(key, data, i) ==
    IF i > Len(data) \/ Len(key) = 0 THEN data
    ELSE XorFrom(key,
                 [data EXCEPT ![i] = ByteXor(data[i], key[((i - 1) % Len(key)) + 1])],
                 i + 1)

\* Xor::transform
XorTransform(key, data) == XorFrom(key, data, 1)

\* test::Add1::transform of filters/head.rs (bytes below 255 only)
Add1Transform(data) == [i \in 1..Len(data) |-> data[i] + 1]

\* a filter without a parent: Xor or the tests' Add1
LeafTransform(kind, key, data) ==
    IF kind = "xor" THEN XorTransform(key, data) ELSE Add1Transform(data)

\* Head::transform: &mut data[..self.n] panics when n > data.len(), before
\* the parent has touched anything
HeadTransform(parent, key, n, data) ==
    IF n > Len(data) THEN PANIC
    ELSE LeafTransform(parent, key, SubSeq(data, 1, n)) \o SubSeq(data, n + 1, Len(data))

\* Transform::transform on a Box<IFilter>
Transform(f, data) ==
    IF f.kind = "head" THEN HeadTransform(f.parent, f.key, f.n, data)
    ELSE LeafTransform(f.kind, f.key, data)

Xor_with_key(key) == [kind |-> "xor", parent |-> "none", key |-> key, n |-> 0]
Add1 == [kind |-> "add1", parent |-> "none", key |-> <<>>, n |-> 0]
Head_new(parent, n) == [kind |-> "head", parent |-> parent.kind, key |-> parent.key, n |-> n]

\* main.rs make_filter: Xor, wrapped in Head when head_len is set
make_filter(xor_key, head_len) ==
    IF head_len = NoHead THEN Xor_with_key(xor_key)
    ELSE Head_new(Xor_with_key(xor_key), head_len)

\* the configurations of the engine model
FilterConfigs == {make_filter(<<3>>, h) : h \in {NoHead} \cup 1..MaxHead}

----------------------------------------------------------------------------
(* Buffers *)

\* common::datagram_buffer: a zeroed buffer of the maximum datagram size
datagram_buffer == [i \in 1..MaxLen |-> 0]

\* recv/recv_from writing a datagram d at the start of buf
RecvInto(buf, d) == [i \in 1..Len(buf) |-> IF i <= Len(d) THEN d[i] ELSE buf[i]]

\* writing the transformed slice r back over &mut buf[..len]
StoreSlice(buf, r) == [i \in 1..Len(buf) |-> IF i <= Len(r) THEN r[i] ELSE buf[i]]

----------------------------------------------------------------------------
(* The state of one proxy process *)

VARIABLES
    filter,     \* UdpProxy.packet_transformer
    table,      \* UdpProxy.conntrack_table: peer -> entry, 0 when vacant
    lock,       \* the ingress task holding the conntrack_table mutex, 0 when free
    nextId,     \* the next ConntrackValue to be allocated
    ent,        \* entry -> the ConntrackValue and the reply task spawned for it
    ing,        \* ingress task -> the locals of its call of run
    wire,       \* the datagram the proxy sent last (history)
    idle        \* peer -> seconds since its last datagram reached the listener

VARIABLES
    pf,         \* the filter under test
    pin,        \* the bytes handed to the first transform
    pout,       \* the bytes after the transforms applied so far
    pstage      \* how far the bytes have travelled

VARIABLE
    dns         \* the locals of one call of dns::resolve_and_filter_ips

VARIABLE
    ml          \* a proxy with several listeners and one ConnTrackMap

VARIABLE
    ctr         \* one proxy::conntrack::ConntrackValue and the tasks calling it

pureVars == <<pf, pin, pout, pstage, dns, ml, ctr>>

engineVars == <<filter, table, lock, nextId, ent, ing, wire, idle>>

vars == <<engineVars, pureVars>>

\* no datagram sent since the last one was received
NoDatagram == [dir |-> "none", sock |-> 0, peer |-> 0, data |-> <<>>]

\* where the clocks of the model stop counting
ClockCap == CONNTRACK_TIMEOUT + TickSeconds

\* an entry that is not allocated yet.  pc is the position of the reply task:
\* none, fresh (spawned), wait (in the select), forward (in the recv branch),
\* exited (reply_loop returned), done (entry removed, task ended), panicked.
\* peer is the peer_addr the task was spawned with, permit the notification
\* stored in has_data_in, buf/len the read_buf and recv_len of reply_loop,
\* timer the seconds since the select armed its sleep.  History: orig is the
\* upstream datagram as it arrived, quiet the seconds since a datagram of
\* either direction arrived for the flow, cause why the loop was left,
\* pending the calls of notify_one since notified() last completed (counted
\* up to MaxPending).
NoEntry ==
    [pc |-> "none", peer |-> 0, permit |-> FALSE, buf |-> <<>>, len |-> 0,
     timer |-> 0, orig |-> <<>>, quiet |-> 0, cause |-> "none", pending |-> 0]

\* run before its first recv_from: pc is the position in the loop (recv,
\* lock, connect, notify, forward, failed, panicked; off when run was not
\* called), buf/len/peer/ct are read_buf, recv_len, peer_addr and ct_value.
\* History: orig is the datagram as it arrived, sent the result of
\* ct_value.sock.send in the iteration before ("none" when it was not called).
IngressStart ==
    [pc |-> "recv", buf |-> datagram_buffer, len |-> 0, peer |-> 0, ct |-> 0,
     orig |-> <<>>, sent |-> "none"]

IngressOff == [IngressStart EXCEPT !.pc = "off"]

\* UdpProxy::new, with run called by the tasks in callers
EngineInit(callers) ==
    /\ filter \in FilterConfigs
    /\ table = [p \in Peers |-> 0]
    /\ lock = 0
    /\ nextId = 1
    /\ ent = [e \in Entries |-> NoEntry]
    /\ ing = [t \in Tasks |-> IF t \in callers THEN IngressStart ELSE IngressOff]
    /\ wire = NoDatagram
    /\ idle = [p \in Peers |-> 0]

\* run returning an error or panicking ends main, and with it the process
Alive == \A t \in Tasks : ing[t].pc \notin {"failed", "panicked"}

----------------------------------------------------------------------------
(* The conntrack table *)

\* a table used without its mutex
LockIgnored == TRUE

\* conntrack_table.lock().await completes only when the mutex is free
LockAvailable == lock = 0

\* an insert under the address of the entry instead of the peer's
TableInsertMiskeyed(tbl, k, e) == [tbl EXCEPT ![e] = e]

\* v.insert(Arc::clone(&ct_value))
TableInsert(tbl, k, e) == [tbl EXCEPT ![k] = e]

\* a removal that empties the table
TableClear(tbl, k) == [p \in DOMAIN tbl |-> 0]

\* a removal that leaves the entry in place
TableRemoveNothing(tbl, k) == tbl

\* conntrack_lock.remove(&peer_addr)
TableRemove(tbl, k) == [tbl EXCEPT ![k] = 0]

\* a sleep of twice the timeout
TimerExpiredLate(secs) == secs >= 2 * CONNTRACK_TIMEOUT

\* the sleep of CONNTRACK_TIMEOUT seconds has elapsed
TimerExpired(secs) == secs >= CONNTRACK_TIMEOUT

\* the reply task of the entry can still reach has_data_in.notified()
CanWait(e) == ent[e].pc \in {"fresh", "wait", "forward"}

----------------------------------------------------------------------------
(* UdpProxy::run, one iteration of the ingress loop *)

\* listener.recv_from(read_buf.as_mut()).await succeeds with datagram d of peer p
IngressRecvFrom(t, p, d) ==
    /\ Alive
    /\ ing[t].pc = "recv"
    /\ ing' = [ing EXCEPT ![t] = [pc |-> "lock", buf |-> RecvInto(@.buf, d),
                                  len |-> Len(d), peer |-> p, ct |-> 0, orig |-> d,
                                  sent |-> "none"]]
    /\ idle' = [idle EXCEPT ![p] = 0]
    /\ ent' = [e \in Entries |->
                 IF table[p] = e /\ ent[e].pc \in {"fresh", "wait", "forward", "exited"}
                 THEN [ent[e] EXCEPT !.quiet = 0] ELSE ent[e]]
    /\ wire' = NoDatagram
    /\ UNCHANGED <<filter, table, lock, nextId>>
    /\ UNCHANGED pureVars

\* listener.recv_from fails: run returns the error
IngressRecvFromFail(t) ==
    /\ Alive
    /\ ing[t].pc = "recv"
    /\ ing' = [ing EXCEPT ![t].pc = "failed"]
    /\ UNCHANGED <<filter, table, lock, nextId, ent, wire, idle>>
    /\ UNCHANGED pureVars

\* a lookup that never finds the key: every datagram creates an entry, which
\* replaces the one the table holds
IngressLockAlwaysVacant(t) ==
    /\ Alive
    /\ ing[t].pc = "lock"
    /\ LockAvailable
    /\ ing' = [ing EXCEPT ![t].pc = "connect"]
    /\ lock' = t
    /\ UNCHANGED <<filter, table, nextId, ent, wire, idle>>
    /\ UNCHANGED pureVars

\* get_or_insert_conntrack_entry up to its first await under the mutex:
\* Entry::Occupied returns the clone and drops the guard, Entry::Vacant goes
\* on to connect_udp_socket with the guard held
IngressLock(t) ==
    /\ Alive
    /\ ing[t].pc = "lock"
    /\ LockAvailable
    /\ IF table[ing[t].peer] # 0
       THEN /\ ing' = [ing EXCEPT ![t].pc = "notify", ![t].ct = table[ing[t].peer]]
            /\ UNCHANGED lock
       ELSE /\ ing' = [ing EXCEPT ![t].pc = "connect"]
            /\ lock' = t
    /\ UNCHANGED <<filter, table, nextId, ent, wire, idle>>
    /\ UNCHANGED pureVars

\* a success that returns the entry with the guard of the table still held
IngressConnectOkGuardHeld(t) ==
    /\ Alive
    /\ ing[t].pc = "connect"
    /\ nextId <= MaxEntries
    /\ table' = TableInsert(table, ing[t].peer, nextId)
    /\ ent' = [ent EXCEPT ![nextId] = [NoEntry EXCEPT !.pc = "fresh",
                                                      !.peer = ing[t].peer]]
    /\ nextId' = nextId + 1
    /\ ing' = [ing EXCEPT ![t].pc = "notify", ![t].ct = nextId]
    /\ UNCHANGED <<filter, lock, wire, idle>>
    /\ UNCHANGED pureVars

\* connect_udp_socket succeeds: the entry is inserted, its reply task is
\* spawned, the guard is dropped and the entry returned
IngressConnectOk(t) ==
    /\ Alive
    /\ ing[t].pc = "connect"
    /\ nextId <= MaxEntries
    /\ table' = TableInsert(table, ing[t].peer, nextId)
    /\ ent' = [ent EXCEPT ![nextId] = [NoEntry EXCEPT !.pc = "fresh",
                                                      !.peer = ing[t].peer]]
    /\ nextId' = nextId + 1
    /\ lock' = 0
    /\ ing' = [ing EXCEPT ![t].pc = "notify", ![t].ct = nextId]
    /\ UNCHANGED <<filter, wire, idle>>
    /\ UNCHANGED pureVars

\* a failure that returns with the guard of the table still held
IngressConnectFailGuardHeld(t) ==
    /\ Alive
    /\ ing[t].pc = "connect"
    /\ ing' = [ing EXCEPT ![t].pc = "failed"]
    /\ UNCHANGED <<filter, table, lock, nextId, ent, wire, idle>>
    /\ UNCHANGED pureVars

\* bind or connect fails: `?` drops the guard and run returns the error
IngressConnectFail(t) ==
    /\ Alive
    /\ ing[t].pc = "connect"
    /\ lock' = 0
    /\ ing' = [ing EXCEPT ![t].pc = "failed"]
    /\ UNCHANGED <<filter, table, nextId, ent, wire, idle>>
    /\ UNCHANGED pureVars

\* a notification that reaches only a task parked in notified(), as
\* notify_waiters does
notify_parked_only(v) ==
    [v EXCEPT !.permit = (@ \/ v.pc = "wait"),
              !.pending = Min(@ + 1, MaxPending)]

\* Notify::notify_one on the has_data_in of entry v: the one permit is
\* stored, whether or not the reply task is parked in notified()
notify_one(v) ==
    [v EXCEPT !.permit = TRUE, !.pending = Min(@ + 1, MaxPending)]

\* ct_value.has_data_in.notify_one(); a notification stored in an entry
\* whose reply task will never wait again is never looked at
IngressNotify(t) ==
    /\ Alive
    /\ ing[t].pc = "notify"
    /\ ent' = IF CanWait(ing[t].ct)
              THEN [ent EXCEPT ![ing[t].ct] = notify_one(@)]
              ELSE ent
    /\ ing' = [ing EXCEPT ![t].pc = "forward"]
    /\ UNCHANGED <<filter, table, lock, nextId, wire, idle>>
    /\ UNCHANGED pureVars

\* the results of ct_value.sock.send: the whole datagram, a short count, an error
SendResults == {"ok", "short", "err"}

\* a send whose short count is returned as an error
AfterSendShortFatal(res) == IF res = "short" THEN "failed" ELSE "recv"

\* a send whose failure is returned with `?`
AfterSendFatal(res) == IF res = "ok" THEN "recv" ELSE "failed"

\* the match on the result of send has no arm that leaves the loop
AfterSend(res) == "recv"

\* packet_transformer.transform(&mut read_buf[..recv_len]) and
\* ct_value.sock.send(read_buf).await; every result of send is logged at
\* most, and the loop goes on to its next recv_from
IngressForward(t, res) ==
    /\ Alive
    /\ ing[t].pc = "forward"
    /\ LET r == Transform(filter, SubSeq(ing[t].buf, 1, ing[t].len)) IN
       IF r = PANIC
       THEN /\ res = "ok"
            /\ ing' = [ing EXCEPT ![t].pc = "panicked"]
            /\ UNCHANGED wire
       ELSE /\ ing' = [ing EXCEPT ![t] = [IngressStart EXCEPT
                                            !.pc = AfterSend(res),
                                            !.buf = StoreSlice(ing[t].buf, r),
                                            !.sent = res]]
            /\ wire' = IF res = "ok"
                       THEN [dir |-> "up", sock |-> ing[t].ct, peer |-> 0, data |-> r]
                       ELSE wire
    /\ UNCHANGED <<filter, table, lock, nextId, ent, idle>>
    /\ UNCHANGED pureVars

----------------------------------------------------------------------------
(* UdpProxy::reply_loop and the task spawned around it *)

\* the loop is left: read_buf and the sleep are dropped
LeaveLoop(v, pc, cause) ==
    [v EXCEPT !.pc = pc, !.cause = cause, !.permit = FALSE, !.pending = 0,
              !.buf = <<>>, !.len = 0, !.orig = <<>>, !.timer = 0,
              !.quiet = IF pc = "exited" THEN @ ELSE 0]

\* the spawned task is polled for the first time: it allocates read_buf and
\* enters the select with a new sleep
ReplyStart(e) ==
    /\ Alive
    /\ ent[e].pc = "fresh"
    /\ ent' = [ent EXCEPT ![e].pc = "wait", ![e].buf = datagram_buffer,
                          ![e].timer = 0]
    /\ UNCHANGED <<filter, table, lock, nextId, ing, wire, idle>>
    /\ UNCHANGED pureVars

\* the sleep branch: break
ReplyTimeout(e) ==
    /\ Alive
    /\ ent[e].pc = "wait"
    /\ TimerExpired(ent[e].timer)
    /\ ent' = [ent EXCEPT ![e] = LeaveLoop(@, "exited", "idle")]
    /\ UNCHANGED <<filter, table, lock, nextId, ing, wire, idle>>
    /\ UNCHANGED pureVars

\* the recv branch: ct_value.sock.recv(read_buf.as_mut()) yields datagram d
ReplyRecv(e, d) ==
    /\ Alive
    /\ ent[e].pc = "wait"
    /\ ent' = [ent EXCEPT ![e].pc = "forward", ![e].buf = RecvInto(@, d),
                          ![e].len = Len(d), ![e].orig = d, ![e].quiet = 0]
    /\ wire' = NoDatagram
    /\ UNCHANGED <<filter, table, lock, nextId, ing, idle>>
    /\ UNCHANGED pureVars

\* the recv branch: recv fails and `?` leaves reply_loop with the error
ReplyRecvFail(e) ==
    /\ Alive
    /\ ent[e].pc = "wait"
    /\ ent' = [ent EXCEPT ![e] = LeaveLoop(@, "exited", "recv")]
    /\ UNCHANGED <<filter, table, lock, nextId, ing, wire, idle>>
    /\ UNCHANGED pureVars

\* the results of listener.send_to
SendToResults == {"ok", "err"}

\* the rest of the recv branch: transform(&mut read_buf[..recv_len]) and
\* listener.send_to(read_buf, peer_addr).await?, then the next iteration with
\* a new sleep; a panic in transform unwinds the spawned task
ReplyForward(e, res) ==
    /\ Alive
    /\ ent[e].pc = "forward"
    /\ LET r == Transform(filter, SubSeq(ent[e].buf, 1, ent[e].len)) IN
       IF r = PANIC
       THEN /\ res = "ok"
            /\ ent' = [ent EXCEPT ![e] = LeaveLoop(@, "panicked", "panic")]
            /\ UNCHANGED wire
       ELSE IF res = "ok"
       THEN /\ ent' = [ent EXCEPT ![e].pc = "wait", ![e].timer = 0, ![e].len = 0,
                                  ![e].orig = <<>>,
                                  ![e].buf = StoreSlice(ent[e].buf, r)]
            /\ wire' = [dir |-> "down", sock |-> 0, peer |-> ent[e].peer, data |-> r]
       ELSE /\ ent' = [ent EXCEPT ![e] = LeaveLoop(@, "exited", "send_to")]
            /\ UNCHANGED wire
    /\ UNCHANGED <<filter, table, lock, nextId, ing, idle>>
    /\ UNCHANGED pureVars

\* the has_data_in.notified() branch: continue, with a new sleep
ReplyNotified(e) ==
    /\ Alive
    /\ ent[e].pc = "wait"
    /\ ent[e].permit
    /\ ent' = [ent EXCEPT ![e].permit = FALSE, ![e].pending = 0, ![e].timer = 0]
    /\ UNCHANGED <<filter, table, lock, nextId, ing, wire, idle>>
    /\ UNCHANGED pureVars

\* after reply_loop has returned: lock the table, remove(&peer_addr), end
ReplyRemove(e) ==
    /\ Alive
    /\ ent[e].pc = "exited"
    /\ LockAvailable
    /\ table' = TableRemove(table, ent[e].peer)
    /\ idle' = [idle EXCEPT ![ent[e].peer] = 0]
    /\ ent' = [ent EXCEPT ![e].pc = "done", ![e].quiet = 0]
    /\ UNCHANGED <<filter, lock, nextId, ing, wire>>
    /\ UNCHANGED pureVars

----------------------------------------------------------------------------
(* Time *)

\* nothing is ready to run: every ingress task waits in recv_from, every
\* reply task is gone or waits in its select with no notification stored
\* and its sleep still running
Quiescent ==
    /\ \A t \in Tasks : ing[t].pc \in {"recv", "off"}
    /\ \A e \in Entries :
         /\ ent[e].pc \in {"none", "wait", "done", "panicked"}
         /\ ent[e].pc = "wait" => (~ent[e].permit /\ ~TimerExpired(ent[e].timer))

\* TickSeconds pass
Tick ==
    /\ Alive
    /\ Quiescent
    /\ \E p \in Peers : table[p] # 0
    /\ ent' = [e \in Entries |->
                 IF ent[e].pc = "wait"
                 THEN [ent[e] EXCEPT !.timer = @ + TickSeconds,
                                     !.quiet = Min(@ + TickSeconds, ClockCap)]
                 ELSE ent[e]]
    /\ idle' = [p \in Peers |->
                  IF table[p] # 0 THEN Min(idle[p] + TickSeconds, ClockCap)
                  ELSE idle[p]]
    /\ UNCHANGED <<filter, table, lock, nextId, ing, wire>>
    /\ UNCHANGED pureVars

----------------------------------------------------------------------------
(* The proxy *)

Listeners == 1..NumListeners

\* a key that leaves the listener out
ConntrackKeyPeerOnly(peer_addr, listener_id) ==
    [peer_addr |-> peer_addr, listener_id |-> 0]

\* conntrack::ConntrackKey, with the derived PartialEq, Eq and Hash: two keys
\* are the same key when both fields agree
ConntrackKey(peer_addr, listener_id) ==
    [peer_addr |-> peer_addr, listener_id |-> listener_id]

\* the keys of conntrack::ConnTrackMap
ConntrackKeys == {ConntrackKey(p, l) : p \in Peers, l \in Listeners}

\* no datagram forwarded yet
NoForward == [flow |-> 0, listener |-> 0, peer |-> 0]

\* a proxy with NumListeners listeners before its first datagram: table is
\* the flow table, flow the entries with their reply tasks (state none, live
\* or closed; listener and peer are what the reply task sends through and
\* to), next the next entry to be allocated, up and down the datagram
\* forwarded last in either direction.  History: arrived is the set of
\* <<listener, peer>> whose datagrams were sent on the socket of the entry.
MlInit ==
    [table |-> [k \in ConntrackKeys |-> 0],
     flow |-> [f \in Entries |-> [state |-> "none", listener |-> 0, peer |-> 0,
                                  arrived |-> {}]],
     next |-> 1,
     up |-> NoForward,
     down |-> NoForward]

\* ResolveOptions::default()
ResolveOptions_default == [ipv4_only |-> FALSE, ipv6_only |-> FALSE]

\* resolve_and_filter_ips not called: addresses and opts are its arguments,
\* i the position of the for loop, ret its Vec, pc where it stands (idle,
\* start, lookup, ok, err) and err the bail! or `?` it returned with
DnsIdle ==
    [pc |-> "idle", addresses |-> <<>>, opts |-> ResolveOptions_default,
     i |-> 0, ret |-> <<>>, err |-> "none"]

\* the variables of the transform harness and of the resolver, at rest
\* no ConntrackValue of proxy/conntrack.rs under test.  in and out are
\* m_num_packets_in and m_num_packets_out, permit the notification stored in
\* has_data_in, task the position of each caller (idle, or between the load
\* and the store of inc_packets_in/out, or between the two loads of
\* is_assured) with the value it loaded in old.  History: calls counts the
\* calls of inc_packets_in/out begun, ret is the last result of is_assured
\* ("true", "false", "none" before the first), a and b the values that call read, was whether
\* a call of is_assured had returned true before that call began.
CtrIdle ==
    [in |-> 0, out |-> 0, permit |-> FALSE, calls |-> 0,
     task |-> <<>>, ret |-> "none", a |-> 0, b |-> 0, was |-> FALSE,
     seen |-> FALSE]

PureIdle ==
    /\ pf = Xor_with_key(<<>>)
    /\ pin = <<>>
    /\ pout = <<>>
    /\ pstage = "idle"
    /\ dns = DnsIdle
    /\ ml = MlInit
    /\ ctr = CtrIdle

\* main.rs: one call of run
Init == EngineInit({1}) /\ PureIdle

Next ==
    \/ \E t \in Tasks, p \in Peers, d \in Payloads : IngressRecvFrom(t, p, d)
    \/ \E t \in Tasks : IngressRecvFromFail(t)
    \/ \E t \in Tasks : IngressLock(t)
    \/ \E t \in Tasks : IngressConnectOk(t)
    \/ \E t \in Tasks : IngressConnectFail(t)
    \/ \E t \in Tasks : IngressNotify(t)
    \/ \E t \in Tasks, res \in SendResults : IngressForward(t, res)
    \/ \E e \in Entries : ReplyStart(e)
    \/ \E e \in Entries : ReplyTimeout(e)
    \/ \E e \in Entries, d \in Payloads : ReplyRecv(e, d)
    \/ \E e \in Entries : ReplyRecvFail(e)
    \/ \E e \in Entries, res \in SendToResults : ReplyForward(e, res)
    \/ \E e \in Entries : ReplyNotified(e)
    \/ \E e \in Entries : ReplyRemove(e)
    \/ Tick

Spec == Init /\ [][Next]_vars

\* the proxy configured without head_len: the transform is the plain Xor
InitPlainXor == EngineInit({1}) /\ filter.kind = "xor" /\ PureIdle

SpecPlainXor == InitPlainXor /\ [][Next]_vars

\* run called by NumIngress tasks at once on the same proxy
InitConcurrent == EngineInit(Tasks) /\ PureIdle

\* the same proxy with peers that send empty datagrams only and an upstream
\* that never answers: what is left is the traffic on the conntrack table
NextConcurrent ==
    \/ \E t \in Tasks, p \in Peers : IngressRecvFrom(t, p, <<>>)
    \/ \E t \in Tasks : IngressRecvFromFail(t)
    \/ \E t \in Tasks : IngressLock(t)
    \/ \E t \in Tasks : IngressConnectOk(t)
    \/ \E t \in Tasks : IngressConnectFail(t)
    \/ \E t \in Tasks : IngressNotify(t)
    \/ \E t \in Tasks, res \in SendResults : IngressForward(t, res)
    \/ \E e \in Entries : ReplyStart(e)
    \/ \E e \in Entries : ReplyTimeout(e)
    \/ \E e \in Entries : ReplyRecvFail(e)
    \/ \E e \in Entries : ReplyNotified(e)
    \/ \E e \in Entries : ReplyRemove(e)
    \/ Tick

SpecConcurrent == InitConcurrent /\ [][NextConcurrent]_vars

\* the same under the scheduling of tokio: the mutex serves its waiters in
\* the order of their requests, so a task that waits in lock().await gets
\* the mutex after finitely many releases, and bind and connect complete
SpecLockFair ==
    /\ InitConcurrent
    /\ [][NextConcurrent]_vars
    /\ \A t \in Tasks : SF_vars(IngressLock(t))
    /\ \A t \in Tasks : WF_vars(IngressConnectOk(t) \/ IngressConnectFail(t))
    /\ \A e \in Entries : SF_vars(ReplyRemove(e))

----------------------------------------------------------------------------
(* The transforms on their own *)

\* the proxy, not started
EngineOff == EngineInit({}) /\ filter = make_filter(<<3>>, NoHead)

\* bytes of the buffers: those of the tests of filters/xor.rs and
\* filters/head.rs and of proxy_transforms
BufBytes == {0, 7, 99}

\* the buffers the filters are run on: every short one and those of the tests
Buffers ==
    UNION {[1..n -> BufBytes] : n \in 0..MaxBufLen}
      \cup {<<7, 7, 7, 7, 7, 7, 7, 7>>, <<0, 0, 0, 0, 0>>, <<99, 99, 0, 0, 0>>}
      \cup {<<0, 1, 2, 3>>, <<2, 2, 2>>, <<2, 2, 2, 2, 2, 2>>}

\* the keys of the tests and the key of proxy_transforms
XorKeys == {<<>>, <<3>>, <<1, 1, 1>>, <<0, 1, 2, 3>>, <<1, 1, 1, 1, 1, 1, 1>>}

\* Xor, the tests' Add1, and Head over either, up to one byte beyond MaxBufLen
Filters ==
    LET leaves == {Xor_with_key(k) : k \in XorKeys} \cup {Add1} IN
    leaves \cup {Head_new(f, n) : f \in leaves, n \in 0..(MaxBufLen + 1)}

\* what main.rs can configure: Xor, or Head over Xor
Configurable == {f \in Filters : f.kind = "xor" \/ (f.kind = "head" /\ f.parent = "xor")}

\* the stage reached when r is the result of a transform
StageAfter(r, stage) == IF r = PANIC THEN "panicked" ELSE stage

FilterInit ==
    /\ EngineOff
    /\ dns = DnsIdle
    /\ ml = MlInit
    /\ ctr = CtrIdle
    /\ pf \in Filters
    /\ pin \in Buffers
    /\ pout = pin
    /\ pstage = "input"

\* filter.transform(data.as_mut())
FilterApply ==
    /\ pstage = "input"
    /\ pout' = Transform(pf, pout)
    /\ pstage' = StageAfter(pout', "once")
    /\ UNCHANGED <<pf, pin, dns, ml, ctr>>
    /\ UNCHANGED engineVars

\* the same filter run on its own output
FilterApplyAgain ==
    /\ pstage = "once"
    /\ pout' = Transform(pf, pout)
    /\ pstage' = StageAfter(pout', "twice")
    /\ UNCHANGED <<pf, pin, dns, ml, ctr>>
    /\ UNCHANGED engineVars

FilterNext == FilterApply \/ FilterApplyAgain

SpecFilter == FilterInit /\ [][FilterNext]_vars

----------------------------------------------------------------------------
(* Two proxies in series (proxy_proxies): client -> A -> B -> upstream *)

TunnelInit ==
    /\ EngineOff
    /\ dns = DnsIdle
    /\ ml = MlInit
    /\ ctr = CtrIdle
    /\ pf \in Configurable
    /\ pin \in Buffers
    /\ pout = pin
    /\ pstage = "client"

\* run of proxy A forwards the client's datagram to proxy B
TunnelClientIngress ==
    /\ pstage = "client"
    /\ pout' = Transform(pf, pout)
    /\ pstage' = StageAfter(pout', "tunnel")
    /\ UNCHANGED <<pf, pin, dns, ml, ctr>>
    /\ UNCHANGED engineVars

\* run of proxy B forwards it to the upstream
TunnelServerIngress ==
    /\ pstage = "tunnel"
    /\ pout' = Transform(pf, pout)
    /\ pstage' = StageAfter(pout', "upstream")
    /\ UNCHANGED <<pf, pin, dns, ml, ctr>>
    /\ UNCHANGED engineVars

\* the upstream answers with datagram d
TunnelUpstreamReply(d) ==
    /\ pstage = "upstream"
    /\ pin' = d
    /\ pout' = d
    /\ pstage' = "reply"
    /\ UNCHANGED <<pf, dns, ml, ctr>>
    /\ UNCHANGED engineVars

\* reply_loop of proxy B forwards the answer to proxy A
TunnelServerReply ==
    /\ pstage = "reply"
    /\ pout' = Transform(pf, pout)
    /\ pstage' = StageAfter(pout', "tunnel_back")
    /\ UNCHANGED <<pf, pin, dns, ml, ctr>>
    /\ UNCHANGED engineVars

\* reply_loop of proxy A forwards it to the client
TunnelClientReply ==
    /\ pstage = "tunnel_back"
    /\ pout' = Transform(pf, pout)
    /\ pstage' = StageAfter(pout', "client_back")
    /\ UNCHANGED <<pf, pin, dns, ml, ctr>>
    /\ UNCHANGED engineVars

TunnelNext ==
    \/ TunnelClientIngress
    \/ TunnelServerIngress
    \/ \E d \in Buffers : TunnelUpstreamReply(d)
    \/ TunnelServerReply
    \/ TunnelClientReply

SpecTunnel == TunnelInit /\ [][TunnelNext]_vars

----------------------------------------------------------------------------
(* dns::resolve_and_filter_ips *)

\* a std::net::SocketAddr: its family and which address of the family it is
SocketAddrV4(n) == [fam |-> "v4", ip |-> n]
SocketAddrV6(n) == [fam |-> "v6", ip |-> n]

\* SocketAddr::is_ipv4, SocketAddr::is_ipv6
is_ipv4(a) == a.fam = "v4"
is_ipv6(a) == a.fam = "v6"

\* the host:port strings of the model
HostNames == {"localhost", "four", "six", "sixfour", "void", "nxdomain"}

\* tokio::net::lookup_host as the resolver of the model answers it: the
\* addresses of the name in the resolver's order, or an error
lookup_host(addr) ==
    CASE addr = "localhost" -> [ok |-> TRUE, ips |-> <<SocketAddrV4(1), SocketAddrV6(1)>>]
      [] addr = "four"      -> [ok |-> TRUE, ips |-> <<SocketAddrV4(2)>>]
      [] addr = "six"       -> [ok |-> TRUE, ips |-> <<SocketAddrV6(2)>>]
      [] addr = "sixfour"   -> [ok |-> TRUE, ips |-> <<SocketAddrV6(3), SocketAddrV4(3)>>]
      [] addr = "void"      -> [ok |-> TRUE, ips |-> <<>>]
      [] OTHER              -> [ok |-> FALSE, ips |-> <<>>]

RECURSIVE RetainFrom(_, _, _)
\* Vec::retain: the elements from position i on that are of family fam,
\* in their order
RetainFrom(v, fam, i) ==
    IF i > Len(v) THEN <<>>
    ELSE (IF v[i].fam = fam THEN <<v[i]>> ELSE <<>>) \o RetainFrom(v, fam, i + 1)

\* ret.retain(|a| a.is_ipv4()) and ret.retain(|a| a.is_ipv6())
Retain(v, fam) == RetainFrom(v, fam, 1)

\* the arguments of the calls of the model
AddressLists == UNION {[1..n -> HostNames] : n \in 0..MaxAddrs}
ResolveOptionsSet == [ipv4_only : BOOLEAN, ipv6_only : BOOLEAN]

ResolveInit ==
    /\ EngineOff
    /\ pf = Xor_with_key(<<>>) /\ pin = <<>> /\ pout = <<>> /\ pstage = "idle"
    /\ ml = MlInit
    /\ ctr = CtrIdle
    /\ \E a \in AddressLists, o \in ResolveOptionsSet :
          dns = [DnsIdle EXCEPT !.pc = "start", !.addresses = a, !.opts = o]

\* the end of a call: Ok(ret) or the error
DnsReturn(d, ret, err) ==
    [d EXCEPT !.pc = IF err = "none" THEN "ok" ELSE "err", !.ret = ret, !.err = err]

\* if addresses.is_empty() { bail! }; let mut ret = Vec::new()
ResolveStart ==
    /\ dns.pc = "start"
    /\ dns' = IF dns.addresses = <<>>
              THEN DnsReturn(dns, <<>>, "empty")
              ELSE [dns EXCEPT !.pc = "lookup", !.i = 1, !.ret = <<>>]
    /\ UNCHANGED <<pf, pin, pout, pstage, ml, ctr>>
    /\ UNCHANGED engineVars

\* one iteration of the for loop: lookup_host(&addr).await...?; ret.extend(ips)
ResolveLookup ==
    /\ dns.pc = "lookup"
    /\ dns.i <= Len(dns.addresses)
    /\ LET r == lookup_host(dns.addresses[dns.i]) IN
       dns' = IF r.ok
              THEN [dns EXCEPT !.ret = @ \o r.ips, !.i = @ + 1]
              ELSE DnsReturn(dns, <<>>, "lookup")
    /\ UNCHANGED <<pf, pin, pout, pstage, ml, ctr>>
    /\ UNCHANGED engineVars

\* the family filter as an if / else if chain: ipv4_only is looked at first
FamilyFilter(ret, opts) ==
    IF opts.ipv4_only
    THEN LET v == Retain(ret, "v4") IN
         [ret |-> v, err |-> IF v = <<>> THEN "no_ipv4" ELSE "none"]
    ELSE IF opts.ipv6_only
    THEN LET v == Retain(ret, "v6") IN
         [ret |-> v, err |-> IF v = <<>> THEN "no_ipv6" ELSE "none"]
    ELSE [ret |-> ret, err |-> "none"]

\* after the loop: bail! when nothing was resolved, the filter, return Ok(ret)
ResolveFilter ==
    /\ dns.pc = "lookup"
    /\ dns.i > Len(dns.addresses)
    /\ dns' = IF dns.ret = <<>>
              THEN DnsReturn(dns, <<>>, "unresolved")
              ELSE LET f == FamilyFilter(dns.ret, dns.opts) IN
                   DnsReturn(dns, f.ret, f.err)
    /\ UNCHANGED <<pf, pin, pout, pstage, ml, ctr>>
    /\ UNCHANGED engineVars

ResolveNext == ResolveStart \/ ResolveLookup \/ ResolveFilter

SpecResolve == ResolveInit /\ [][ResolveNext]_vars

----------------------------------------------------------------------------
(* A proxy with several listeners: one ingress loop per listener, one flow
   table keyed by conntrack::ConntrackKey *)

ListenersInit == EngineOff /\ PureIdle

\* one iteration of the ingress loop of listener l for a datagram of peer p:
\* get_or_create(FlowKey{listener_id, peer}), which creates the entry and
\* spawns its reply task when the key is vacant, then the send on the
\* socket of the entry
MlIngress(l, p) ==
    LET k == ConntrackKey(p, l)
        found == ml.table[k]
        f == IF found # 0 THEN found ELSE ml.next
    IN  /\ f \in Entries
        /\ ml' = [ml EXCEPT
                    !.table[k] = f,
                    !.flow[f] = IF found # 0
                                THEN [@ EXCEPT !.arrived = @ \cup {<<l, p>>}]
                                ELSE [state |-> "live", listener |-> l, peer |-> p,
                                      arrived |-> {<<l, p>>}],
                    !.next = IF found # 0 THEN @ ELSE @ + 1,
                    !.up = [flow |-> f, listener |-> l, peer |-> p]]
        /\ UNCHANGED <<pf, pin, pout, pstage, dns, ctr>>
        /\ UNCHANGED engineVars

\* the reply loop of entry f receives a datagram of the upstream and sends
\* it through its listener to its peer
MlReply(f) ==
    /\ ml.flow[f].state = "live"
    /\ ml' = [ml EXCEPT !.down = [flow |-> f, listener |-> ml.flow[f].listener,
                                  peer |-> ml.flow[f].peer]]
    /\ UNCHANGED <<pf, pin, pout, pstage, dns, ctr>>
    /\ UNCHANGED engineVars

\* the reply loop of entry f exits and the task removes its key
MlClose(f) ==
    /\ ml.flow[f].state = "live"
    /\ ml' = [ml EXCEPT
                !.flow[f].state = "closed",
                !.table[ConntrackKey(ml.flow[f].peer, ml.flow[f].listener)] = 0]
    /\ UNCHANGED <<pf, pin, pout, pstage, dns, ctr>>
    /\ UNCHANGED engineVars

ListenersNext ==
    \/ \E l \in Listeners, p \in Peers : MlIngress(l, p)
    \/ \E f \in Entries : MlReply(f)
    \/ \E f \in Entries : MlClose(f)

SpecListeners == ListenersInit /\ [][ListenersNext]_vars

----------------------------------------------------------------------------
(* proxy/conntrack.rs: the packet counters of a ConntrackValue *)

\* i32::MAX, where saturating_add stops
i32_MAX == 2147483647

CtrTasks == 1..NumCallers

\* the values a counter starts the model with: ConntrackValue::new gives 0;
\* the others stand for a flow that has counted that many packets already
CounterStarts == {0, 1, i32_MAX - 1, i32_MAX}

\* i32::saturating_add
saturating_add(old, n) ==
    IF old > i32_MAX - n THEN i32_MAX ELSE old + n

Max(x, y) == IF x > y THEN x ELSE y

\* an is_assured that is content with packets in one direction
is_assured_either(a, b) == Min(a, b) >= 1 \/ Max(a, b) >= 2

\* the last line of is_assured on the two values it loaded
is_assured(a, b) == Min(a, b) >= 1 /\ Max(a, b) >= 2

CtrTaskIdle == [pc |-> "idle", old |-> 0, saw |-> FALSE]

CountersInit ==
    /\ EngineOff
    /\ pf = Xor_with_key(<<>>)
    /\ pin = <<>>
    /\ pout = <<>>
    /\ pstage = "idle"
    /\ dns = DnsIdle
    /\ ml = MlInit
    /\ \E i, o \in CounterStarts :
          ctr = [CtrIdle EXCEPT !.in = i, !.out = o,
                                !.task = [t \in CtrTasks |-> CtrTaskIdle]]

\* inc_packets_in, first line: old = m_num_packets_in.load(Relaxed)
IncInLoad(t) ==
    /\ ctr.task[t].pc = "idle"
    /\ ctr.calls < MaxCalls
    /\ ctr' = [ctr EXCEPT !.task[t].pc = "in", !.task[t].old = ctr.in,
                          !.calls = @ + 1]
    /\ UNCHANGED <<pf, pin, pout, pstage, dns, ml>>
    /\ UNCHANGED engineVars

\* inc_packets_in, the rest: store(old.saturating_add(1)), notify_one
IncInStore(t) ==
    /\ ctr.task[t].pc = "in"
    /\ ctr' = [ctr EXCEPT !.in = saturating_add(ctr.task[t].old, 1),
                          !.permit = TRUE,
                          !.task[t] = CtrTaskIdle]
    /\ UNCHANGED <<pf, pin, pout, pstage, dns, ml>>
    /\ UNCHANGED engineVars

\* inc_packets_out, first line: old = m_num_packets_out.load(Relaxed)
IncOutLoad(t) ==
    /\ ctr.task[t].pc = "idle"
    /\ ctr.calls < MaxCalls
    /\ ctr' = [ctr EXCEPT !.task[t].pc = "out", !.task[t].old = ctr.out,
                          !.calls = @ + 1]
    /\ UNCHANGED <<pf, pin, pout, pstage, dns, ml>>
    /\ UNCHANGED engineVars

\* inc_packets_out, the rest: store(old.saturating_add(1))
IncOutStore(t) ==
    /\ ctr.task[t].pc = "out"
    /\ ctr' = [ctr EXCEPT !.out = saturating_add(ctr.task[t].old, 1),
                          !.task[t] = CtrTaskIdle]
    /\ UNCHANGED <<pf, pin, pout, pstage, dns, ml>>
    /\ UNCHANGED engineVars

\* is_assured, first line: a = num_packets_in()
AssuredLoadIn(t) ==
    /\ ctr.task[t].pc = "idle"
    /\ ctr' = [ctr EXCEPT !.task[t].pc = "assured", !.task[t].old = ctr.in,
                          !.task[t].saw = ctr.seen]
    /\ UNCHANGED <<pf, pin, pout, pstage, dns, ml>>
    /\ UNCHANGED engineVars

\* is_assured, the rest: b = num_packets_out(), min, max and the result
AssuredReturn(t) ==
    /\ ctr.task[t].pc = "assured"
    /\ LET a == ctr.task[t].old
           b == ctr.out
       IN ctr' = [ctr EXCEPT !.ret = IF is_assured(a, b) THEN "true" ELSE "false",
                             !.a = a, !.b = b,
                             !.was = ctr.task[t].saw,
                             !.seen = (@ \/ is_assured(a, b)),
                             !.task[t] = CtrTaskIdle]
    /\ UNCHANGED <<pf, pin, pout, pstage, dns, ml>>
    /\ UNCHANGED engineVars

CountersNext ==
    \/ \E t \in CtrTasks : IncInLoad(t)
    \/ \E t \in CtrTasks : IncInStore(t)
    \/ \E t \in CtrTasks : IncOutLoad(t)
    \/ \E t \in CtrTasks : IncOutStore(t)
    \/ \E t \in CtrTasks : AssuredLoadIn(t)
    \/ \E t \in CtrTasks : AssuredReturn(t)

SpecCounters == CountersInit /\ [][CountersNext]_vars

----------------------------------------------------------------------------
(* Properties *)

\* the transform as specified: Head(n, T) is T on the first min(n, len)
\* bytes, the rest unchanged; it never fails
SpecTransform(f, data) ==
    IF f.kind = "head"
    THEN LET m == Min(f.n, Len(data)) IN
         LeafTransform(f.parent, f.key, SubSeq(data, 1, m)) \o SubSeq(data, m + 1, Len(data))
    ELSE LeafTransform(f.kind, f.key, data)

\* the entries of peer p whose socket and reply task exist
LiveEntries(p) == {e \in Entries : ent[e].peer = p /\ ent[e].pc \notin {"none", "done"}}

\* task t has returned from get_or_insert_conntrack_entry and holds ct_value
Returned(t) == ing[t].pc \in {"notify", "forward"}

\* C1: concurrent calls of get_or_insert_conntrack_entry for one key create
\* one flow: at any time at most one socket and reply task exist for a key,
\* the table maps the key to that entry, a call that found the key vacant
\* keeps the table locked and the key vacant until it has inserted, and
\* every call returns the entry the table holds for its key.
C1_OneCreation ==
    /\ \A p \in Peers : Cardinality(LiveEntries(p)) <= 1
    /\ \A p \in Peers : table[p] # 0 => table[p] \in LiveEntries(p)
    /\ \A t \in Tasks : ing[t].pc = "connect" => (lock = t /\ table[ing[t].peer] = 0)
    /\ \A t \in Tasks : Returned(t) =>
          /\ ing[t].ct \in Entries
          /\ ent[ing[t].ct].peer = ing[t].peer
          /\ ent[ing[t].ct].pc # "done" => table[ing[t].peer] = ing[t].ct

\* C1 witness: two concurrent calls for the same peer have returned, both
\* with the one entry created for it
C1_Witness ==
    \E t1, t2 \in Tasks :
        /\ t1 # t2
        /\ Returned(t1) /\ Returned(t2)
        /\ ing[t1].peer = ing[t2].peer
        /\ ing[t1].ct = ing[t2].ct
        /\ table[ing[t1].peer] = ing[t1].ct

\* C2 as claimed: every key in the table has a reply task whose loop has not
\* yet exited.
C2_LoopRunning ==
    \A p \in Peers : table[p] # 0 => ent[table[p]].pc \in {"fresh", "wait", "forward"}

\* C2: every key in the table maps to the entry created for it, and the
\* reply task spawned for that entry has not removed it yet: the task is
\* about to enter or in its loop, or has left the loop with the removal still
\* to come, or was aborted by a panic of the transform.
C2_TaskNotFinished ==
    \A p \in Peers : table[p] # 0 =>
        /\ ent[table[p]].peer = p
        /\ ent[table[p]].pc \in {"fresh", "wait", "forward", "exited", "panicked"}

\* C2 witness: an entry is still in the table after its reply loop has exited
C2_Witness ==
    \E p \in Peers : table[p] # 0 /\ ent[table[p]].pc = "exited"

\* C3: a reply task that has stopped for good has removed its entry (the
\* entry of a task that no longer runs can be removed by nobody else, so it
\* would stay for ever).
C3_StoppedTaskRemoved ==
    \A e \in Entries : ent[e].pc \in {"done", "panicked"} => table[ent[e].peer] # e

\* the grace period granted for the removal
Grace == TickSeconds

C5_ReapedThenNew ==
    [][/\ \A e \in Entries : ent'[e].pc = "done" => table'[ent'[e].peer] # e
       /\ \A t \in Tasks :
            (ing[t].pc \in {"lock", "connect"} /\ ing'[t].pc = "notify") =>
                /\ ing'[t].ct \in Entries
                /\ table'[ing[t].peer] = ing'[t].ct
                /\ ent'[ing'[t].ct].pc \notin {"none", "done"}
                /\ table[ing[t].peer] = 0 =>
                     /\ ing'[t].ct = nextId
                     /\ nextId' = nextId + 1
                     /\ ent[ing'[t].ct].pc = "none"
                     /\ ent'[ing'[t].ct].pc = "fresh"]_vars

\* C5 witness: after a flow of a peer was reaped by idle expiry, a second
\* entry has been created for the same peer
C5_Witness ==
    \E e1, e2 \in Entries :
        /\ e1 # e2
        /\ ent[e1].pc = "done" /\ ent[e1].cause = "idle"
        /\ ent[e2].peer = ent[e1].peer
        /\ table[ent[e1].peer] = e2

\* C6: through two proxies with the same transform the upstream receives the
\* client's payload and the client receives the upstream's reply, byte for
\* byte, for every payload.
C6_TunnelTransparent ==
    /\ pstage # "panicked"
    /\ pstage \in {"upstream", "client_back"} => pout = pin

\* C7: for every datagram received the ingress loop sends one datagram on the
\* socket of the flow, of the same length and with the configured transform
\* applied to the bytes received.
C7_IngressForwards ==
    [][\A t \in Tasks :
         (ing[t].pc = "forward" /\ ing'[t].pc # "forward") =>
             /\ ing'[t].pc = "recv"
             /\ wire' # wire =>
                  /\ wire'.dir = "up"
                  /\ wire'.sock = ing[t].ct
                  /\ Len(wire'.data) = ing[t].len
                  /\ wire'.data = SpecTransform(filter, ing[t].orig)]_vars

\* C8: every datagram a reply task receives is sent through the listener to
\* the peer of its flow, with the same length and the configured transform
\* applied.
C8_ReplyForwards ==
    [][\A e \in Entries :
         (ent[e].pc = "forward" /\ ent'[e].pc # "forward") =>
             /\ ent'[e].pc \in {"wait", "exited"}
             /\ wire' # wire =>
                  /\ wire'.dir = "down"
                  /\ wire'.peer = ent[e].peer
                  /\ Len(wire'.data) = ent[e].len
                  /\ wire'.data = SpecTransform(filter, ent[e].orig)]_vars

\* C9: Head(n, T) never fails and yields T on the first min(n, len) bytes
\* followed by the other bytes unchanged.
C9_HeadPointwise ==
    (pf.kind = "head" /\ pstage # "input") =>
        /\ pstage # "panicked"
        /\ pstage = "once" => pout = SpecTransform(pf, pin)

\* C10: a datagram with an empty payload is forwarded as an empty datagram
\* and the ingress loop goes on to its next recv_from.
C10_EmptyForwarded ==
    [][\A t \in Tasks :
         (ing[t].pc = "forward" /\ ing[t].len = 0 /\ ing'[t].pc # "forward") =>
             /\ ing'[t].pc = "recv"
             /\ wire' # wire => (wire'.dir = "up" /\ wire'.data = <<>>)]_vars

\* C11: Xor is an involution: for every key, the empty one included, and
\* every buffer, Xor applied twice yields the buffer again (and Xor never
\* fails).
C11_XorInvolution ==
    pf.kind = "xor" =>
        /\ pstage # "panicked"
        /\ pstage = "twice" => pout = pin

\* C11 witness: Xor with a key that changes the buffer has been applied twice
C11_Witness ==
    /\ pf.kind = "xor" /\ pf.key # <<>>
    /\ pstage = "twice"
    /\ pin # <<>> /\ XorTransform(pf.key, pin) # pin

\* bit j of byte x
Bit(x, j) == (x \div (2 ^ j)) % 2

\* c is the bitwise exclusive or of the bytes a and b
IsXorOf(c, a, b) ==
    /\ c \in 0..255
    /\ \A j \in 0..7 : (Bit(c, j) = 1) <=> (Bit(a, j) # Bit(b, j))

\* C12: Xor with key k maps a buffer to the buffer of the same length whose
\* byte i is buf[i] XOR k[i mod len(k)] (i counted from 0), the key repeated
\* when shorter than the buffer and cut when longer; with the empty key the
\* buffer is unchanged.
C12_XorPointwise ==
    (pf.kind = "xor" /\ pstage = "once") =>
        /\ Len(pout) = Len(pin)
        /\ \A i \in 1..Len(pin) :
              IF Len(pf.key) = 0 THEN pout[i] = pin[i]
              ELSE IsXorOf(pout[i], pin[i], pf.key[((i - 1) % Len(pf.key)) + 1])

\* C12 witness: a key shorter than the buffer has been repeated over it (the
\* test shorter_key_longer_message)
C12_Witness ==
    /\ pf.kind = "xor" /\ pstage = "once"
    /\ pf.key = <<1, 1, 1>>
    /\ pin = <<2, 2, 2, 2, 2, 2>>
    /\ pout = <<3, 3, 3, 3, 3, 3>>

\* C13: when send on the socket of a flow returns an error or a short count,
\* the datagram is lost and nothing else happens: the ingress loop is back at
\* recv_from, nothing was sent, the table and every entry and reply task are
\* as they were.
C13_SendFailureDropped ==
    [][\A t \in Tasks :
         (ing[t].pc = "forward" /\ ing'[t].sent \in {"short", "err"}) =>
             /\ ing'[t].pc = "recv"
             /\ wire' = wire
             /\ table' = table
             /\ ent' = ent]_vars

\* C13 witness: after a failed send the ingress loop is at recv_from and a
\* flow is still in the table with its reply task waiting
C13_Witness ==
    \E t \in Tasks, p \in Peers :
        /\ ing[t].pc = "recv" /\ ing[t].sent \in {"short", "err"}
        /\ table[p] # 0 /\ ent[table[p]].pc = "wait"

\* C14: a failure of listener.send_to is not fatal to the flow: whatever
\* send_to returns, the reply loop goes back to waiting, and no flow is ever
\* closed and removed from the table because of it.
C14_SendToNonFatal ==
    [][\A e \in Entries :
         /\ (ent[e].pc = "forward" /\ ent'[e].pc \notin {"forward", "panicked"}) =>
                ent'[e].pc = "wait"
         /\ ent'[e].pc \in {"exited", "done"} => ent'[e].cause # "send_to"]_vars

\* C15: a recv error on the socket of one flow ends that flow only.  The step
\* in which recv fails leaves the loop of that flow and changes nothing
\* else; the one step left to its task removes the key of that flow from the
\* table; in both steps the entries and reply tasks of the other flows, their
\* keys in the table and the ingress loop are unchanged.
C15_RecvErrorEndsFlowOnly ==
    [][\A e \in Entries :
         (ent'[e].cause = "recv" /\ ent'[e].pc # ent[e].pc) =>
             /\ \A e2 \in Entries \ {e} : ent'[e2] = ent[e2]
             /\ \A p \in Peers \ {ent[e].peer} : table'[p] = table[p]
             /\ ing' = ing
             /\ \/ /\ ent[e].pc = "wait"
                   /\ ent'[e].pc = "exited"
                   /\ table' = table
                \/ /\ ent[e].pc = "exited"
                   /\ ent'[e].pc = "done"
                   /\ table[ent[e].peer] = e
                   /\ table'[ent[e].peer] = 0]_vars

\* C15 witness: the flow of one peer was ended by a recv error and removed,
\* the flow of another peer is in the table with its reply task waiting, and
\* the ingress loop is at recv_from
C15_Witness ==
    \E e1, e2 \in Entries :
        /\ ent[e1].pc = "done" /\ ent[e1].cause = "recv"
        /\ table[ent[e1].peer] = 0
        /\ ent[e2].peer # ent[e1].peer
        /\ ent[e2].pc = "wait" /\ table[ent[e2].peer] = e2
        /\ ing[1].pc = "recv"

\* the transform of the proxy panics on a datagram of n bytes
TransformPanics(n) == filter.kind = "head" /\ filter.n > n

\* C16 as claimed: the ingress loop terminates only when recv_from fails.
C16_OnlyRecvFromFatal ==
    [][\A t \in Tasks :
         (ing'[t].pc \in {"failed", "panicked"} /\ ing[t].pc \notin {"failed", "panicked"})
             => ing[t].pc = "recv"]_vars

\* C16: the ingress loop terminates only when recv_from fails, when bind or
\* connect of the upstream socket fails while the flow is created, or when
\* the transform panics on a datagram shorter than head_len; after every
\* other event of an iteration (a send that succeeds, fails or is short) it
\* goes on to its next recv_from.
C16_LoopLeftOnlyByFailure ==
    [][\A t \in Tasks :
         /\ (ing'[t].pc = "failed" /\ ing[t].pc # "failed")
                => ing[t].pc \in {"recv", "connect"}
         /\ (ing'[t].pc = "panicked" /\ ing[t].pc # "panicked")
                => (ing[t].pc = "forward" /\ TransformPanics(ing[t].len))
         /\ (ing[t].pc = "forward" /\ ~TransformPanics(ing[t].len))
                => ing'[t].pc \in {"forward", "recv"}]_vars

\* C16 witness: the ingress loop was terminated by a failed flow creation,
\* after earlier iterations had created a flow and gone on
C16_Witness ==
    \E t \in Tasks :
        /\ ing[t].pc = "failed"
        /\ ing[t].peer # 0
        /\ \E p \in Peers : table[p] # 0

\* C17: when bind or connect of the upstream socket fails while a flow is
\* created, the error ends the ingress loop; the key has no entry in the
\* table, the table is otherwise unchanged, no entry is allocated and no
\* reply task spawned, and the table lock, held until then by the caller, is
\* released.
C17_ConnectFailureFatal ==
    [][\A t \in Tasks :
         (ing[t].pc = "connect" /\ ing'[t].pc # "notify" /\ ing'[t] # ing[t]) =>
             /\ ing'[t].pc = "failed"
             /\ table' = table
             /\ table'[ing[t].peer] = 0
             /\ ent' = ent
             /\ nextId' = nextId
             /\ lock = t
             /\ lock' = 0]_vars

\* C17 witness: the creation of a flow for one peer has failed while the
\* flow of another peer is in the table with its reply task alive
C17_Witness ==
    \E t \in Tasks, p \in Peers :
        /\ ing[t].pc = "failed"
        /\ ing[t].peer \notin {0, p}
        /\ table[ing[t].peer] = 0
        /\ table[p] # 0 /\ ent[table[p]].pc \in {"fresh", "wait"}
        /\ lock = 0

RECURSIVE ResolvedFrom(_, _)
\* what the names from position i on resolve to, in order
ResolvedFrom(addresses, i) ==
    IF i > Len(addresses) THEN <<>>
    ELSE lookup_host(addresses[i]).ips \o ResolvedFrom(addresses, i + 1)

\* every address the names of the call resolve to
Resolved == ResolvedFrom(dns.addresses, 1)

\* C18: with ipv4_only and ipv6_only both true no address passes the filter,
\* so the resolution never returns addresses.
C18_BothFlagsFail ==
    (dns.opts.ipv4_only /\ dns.opts.ipv6_only) => dns.pc # "ok"

\* C19: a successful resolution returns a non-empty list: with ipv4_only the
\* IPv4 addresses among the resolved ones in their order, with ipv6_only the
\* IPv6 ones, with neither all of them; the resolution fails when the list
\* of names is empty, when nothing resolves and when the filter leaves
\* nothing.
C19_ResolveFilters ==
    /\ dns.pc = "ok" =>
          /\ dns.ret # <<>>
          /\ dns.opts.ipv4_only => dns.ret = SelectSeq(Resolved, is_ipv4)
          /\ dns.opts.ipv6_only => dns.ret = SelectSeq(Resolved, is_ipv6)
          /\ (~dns.opts.ipv4_only /\ ~dns.opts.ipv6_only) => dns.ret = Resolved
    /\ dns.pc \in {"ok", "err"} =>
          /\ dns.addresses = <<>> => dns.pc = "err"
          /\ Resolved = <<>> => dns.pc = "err"
          /\ (dns.opts.ipv4_only /\ SelectSeq(Resolved, is_ipv4) = <<>>) => dns.pc = "err"
          /\ (dns.opts.ipv6_only /\ SelectSeq(Resolved, is_ipv6) = <<>>) => dns.pc = "err"

C21_NotifyCoalesces ==
    [][\A e \in Entries :
         /\ ent'[e].pc \in {"fresh", "wait", "forward"} =>
                (ent'[e].permit <=> ent'[e].pending >= 1)
         /\ (ent[e].permit /\ ~ent'[e].permit /\ ent'[e].pc = "wait") =>
                /\ ent[e].pc = "wait"
                /\ ent'[e].pending = 0
                /\ wire' = wire]_vars

\* C21 witness: notify_one was called twice while the reply task was
\* handling an upstream datagram, and one permit is stored
C21_Witness ==
    \E e \in Entries :
        /\ ent[e].pc = "forward"
        /\ ent[e].pending = 2
        /\ ent[e].permit

\* C22: the reply loop restarts its idle timer from zero after every upstream
\* receive and after every data-in wake, the data-in wake forwards nothing,
\* and the loop takes its idle exit only when CONNTRACK_TIMEOUT seconds have
\* passed since the last restart.
C22_TimerRestarts ==
    [][\A e \in Entries :
         /\ (ent[e].pc = "forward" /\ ent'[e].pc # "forward") =>
                (ent'[e].pc = "wait" /\ ent'[e].timer = 0)
         /\ (ent[e].pc = "wait" /\ ent[e].permit /\ ~ent'[e].permit
                /\ ent'[e].pc = "wait") =>
                (ent'[e].timer = 0 /\ wire' = wire)
         /\ (ent[e].cause # "idle" /\ ent'[e].cause = "idle") =>
                (ent[e].pc = "wait" /\ ent[e].timer >= CONNTRACK_TIMEOUT)]_vars

\* the state of the flow an entry stands for: 0 not created, 1 Fresh
\* (inserted, reply task spawned), 2 Active (reply task in its loop),
\* 3 Closed (reply task out of its loop)
FlowState(v) ==
    CASE v.pc = "none" -> 0
      [] v.pc = "fresh" -> 1
      [] v.pc \in {"wait", "forward"} -> 2
      [] OTHER -> 3

\* C23: each flow entry goes through Fresh, Active, Closed in that order and
\* never back: its state moves one step forward or stays, an entry is put
\* into the table only when it is created, and once its reply task has
\* removed it the table never holds it again.
C23_LinearLifecycle ==
    [][\A e \in Entries :
         /\ FlowState(ent'[e]) \in {FlowState(ent[e]), FlowState(ent[e]) + 1}
         /\ \A p \in Peers :
              (table'[p] = e /\ table[p] # e) =>
                 (FlowState(ent[e]) = 0 /\ FlowState(ent'[e]) = 1
                    /\ ent'[e].peer = p)
         /\ ent'[e].pc = "done" => \A p \in Peers : table'[p] # e]_vars

\* C23 witness: the first flow of a peer is closed and removed, and a second
\* entry of the same peer is active in the table
C23_Witness ==
    \E e1, e2 \in Entries :
        /\ ent[e1].pc = "done"
        /\ ent[e2].pc = "wait"
        /\ ent[e2].peer = ent[e1].peer
        /\ table[ent[e2].peer] = e2

\* C25: the removal a reply task performs after its loop removes that task's
\* own entry: when it removes, the table maps the peer address to the entry
\* the task was spawned for, and only that key is vacated.
C25_RemovesOwnEntry ==
    [][\A e \in Entries :
         (ent[e].pc = "exited" /\ ent'[e].pc = "done") =>
            /\ table[ent[e].peer] = e
            /\ table' = [table EXCEPT ![ent[e].peer] = 0]]_vars

\* C25 witness: two entries were created for one peer address, one after the
\* other, and each was removed by its own reply task
C25_Witness ==
    \E e1, e2 \in Entries :
        /\ e1 < e2
        /\ ent[e1].pc = "done"
        /\ ent[e2].pc = "done"
        /\ ent[e1].peer = ent[e2].peer
        /\ table[ent[e1].peer] = 0

\* C26: the ingress loop never sends a datagram on the upstream socket of an
\* entry whose reply task has left its loop: when ct_value.sock.send is
\* called, the reply task of ct_value is still in its loop (or about to
\* enter it).
C26_SendOnlyToLiveFlow ==
    [][\A t \in Tasks :
         (ing[t].pc = "forward" /\ ing'[t].sent # "none") =>
            ent[ing[t].ct].pc \in {"fresh", "wait", "forward"}]_vars

\* C26 as amended: the datagram is sent on the socket of the entry that
\* get_or_insert_conntrack_entry returned for the datagram's peer; at the
\* time of the send that entry is still the one the table holds for the
\* peer, or its reply task has removed it in the meantime.
C26_SendOnReturnedEntry ==
    [][\A t \in Tasks :
         (ing[t].pc = "forward" /\ ing'[t].sent # "none") =>
            /\ ing[t].ct \in Entries
            /\ ent[ing[t].ct].peer = ing[t].peer
            /\ \/ table[ing[t].peer] = ing[t].ct
               \/ ent[ing[t].ct].pc = "done"
            /\ ing'[t].sent = "ok" => wire'.sock = ing[t].ct]_vars

\* C26 witness: run is about to send on the socket of the entry it was
\* given, and the reply task of that entry has left its loop by idle expiry
\* and removed the entry
C26_Witness ==
    \E t \in Tasks :
        /\ ing[t].pc = "forward"
        /\ ing[t].ct \in Entries
        /\ ent[ing[t].ct].pc = "done"
        /\ ent[ing[t].ct].cause = "idle"
        /\ table[ing[t].peer] = 0

\* C24: is_assured returns true exactly when the flow has counted at least
\* one packet in each direction and at least two in at least one direction,
\* for the values it read, small or at the 32-bit maximum.
C24_AssuredExactly ==
    ctr.ret # "none" =>
        (ctr.ret = "true" <=> (/\ ctr.a >= 1
                               /\ ctr.b >= 1
                               /\ (ctr.a >= 2 \/ ctr.b >= 2)))

\* C24 witness: is_assured has returned false for a flow that counted two
\* packets in and none out
C24_Witness ==
    /\ ctr.ret = "false"
    /\ ctr.a = 2
    /\ ctr.b = 0

\* C28: the packet counters never decrease and never wrap, each call of
\* inc_packets_in or inc_packets_out raises its counter by exactly one until
\* it stays at the 32-bit maximum, also when calls of several tasks
\* interleave, and a call of is_assured that begins after one has returned
\* true returns true.
C28_CountersMonotonic ==
    [][/\ ctr'.in >= ctr.in
       /\ ctr'.out >= ctr.out
       /\ ctr'.in # ctr.in => (ctr.in < i32_MAX /\ ctr'.in = ctr.in + 1)
       /\ ctr'.out # ctr.out => (ctr.out < i32_MAX /\ ctr'.out = ctr.out + 1)
       /\ \A t \in CtrTasks :
            /\ (ctr.task[t].pc = "in" /\ ctr'.task[t].pc = "idle") =>
                  ctr'.in = IF ctr.in = i32_MAX THEN i32_MAX ELSE ctr.in + 1
            /\ (ctr.task[t].pc = "out" /\ ctr'.task[t].pc = "idle") =>
                  ctr'.out = IF ctr.out = i32_MAX THEN i32_MAX ELSE ctr.out + 1
            /\ (ctr.task[t].pc = "assured" /\ ctr'.task[t].pc = "idle"
                  /\ ctr'.was) => ctr'.ret = "true"]_vars

\* C27: the mutex of the conntrack table never causes a deadlock.  It is
\* held only inside get_or_insert_conntrack_entry, across bind and connect,
\* and released on every way out, the error included; while the process
\* runs, an ingress task waiting for the mutex gets it, and so does a reply
\* task that has left its loop and waits to remove its entry.
C27_LockNeverDeadlocks ==
    /\ [](lock # 0 => ing[lock].pc = "connect")
    /\ \A t \in Tasks : (ing[t].pc = "connect") ~> (ing[t].pc # "connect" \/ ~Alive)
    /\ \A t \in Tasks : (ing[t].pc = "lock") ~> (ing[t].pc # "lock" \/ ~Alive)
    /\ \A e \in Entries : (ent[e].pc = "exited") ~> (ent[e].pc = "done" \/ ~Alive)

\* C27 witness: one ingress task holds the mutex across connect while the
\* other ingress task and a reply task that has left its loop wait for it
C27_Witness ==
    \E t1, t2 \in Tasks, e \in Entries :
        /\ lock = t1
        /\ ing[t1].pc = "connect"
        /\ ing[t2].pc = "lock"
        /\ ent[e].pc = "exited"

====
